---------------------------- MODULE Spec2Model ----------------------------
(***************************************************************************)
(* The OpenAPI-driven request-mapping engine of the weLore node            *)
(* (nodes/weLoreApi/WeLoreApi.node.ts): the process-wide schema cache and  *)
(* operation-record cache, the three loadOptions handlers, resolveMapping  *)
(* and the per-item loop of execute.                                       *)
(*                                                                         *)
(* JavaScript strings are sequences of one-character strings, so that      *)
(* split, startsWith, endsWith, includes, replace, toLowerCase and         *)
(* toUpperCase are computed character by character as the code does.       *)
(***************************************************************************)
EXTENDS Naturals, Sequences, FiniteSets, TLC

(***************************************************************************)
(* Bounds of the model.                                                    *)
(***************************************************************************)
\* file reads of docs.openapi.yaml one process may attempt
MaxReads == 3
\* input items of one execute run
MaxItems == 2
\* path templates of a generated schema document
MaxPaths == 3
\* path templates of a generated document of parameter-bearing paths
MaxParameterPaths == 2

(***************************************************************************)
(* String primitives.                                                      *)
(***************************************************************************)
Lower == <<"a","b","c","d","e","f","g","h","i","j","k","l","m",
           "n","o","p","q","r","s","t","u","v","w","x","y","z">>
Upper == <<"A","B","C","D","E","F","G","H","I","J","K","L","M",
           "N","O","P","Q","R","S","T","U","V","W","X","Y","Z">>

UpperToLower == [c \in {Upper[k] : k \in 1..Len(Upper)} |->
                    Lower[CHOOSE k \in 1..Len(Upper) : Upper[k] = c]]
LowerToUpper == [c \in {Lower[k] : k \in 1..Len(Lower)} |->
                    Upper[CHOOSE k \in 1..Len(Lower) : Lower[k] = c]]

LowerChar(c) == IF c \in DOMAIN UpperToLower THEN UpperToLower[c] ELSE c

UpperChar(c) == IF c \in DOMAIN LowerToUpper THEN LowerToUpper[c] ELSE c

\* String.prototype.toLowerCase
ToLowerCase(s) == [k \in 1..Len(s) |-> LowerChar(s[k])]

\* String.prototype.toUpperCase
ToUpperCase(s) == [k \in 1..Len(s) |-> UpperChar(s[k])]

\* whether pat occurs in s at position k
MatchAt(s, pat, k) ==
    /\ k >= 1
    /\ k + Len(pat) - 1 <= Len(s)
    /\ \A j \in 1..Len(pat) : s[k + j - 1] = pat[j]

\* String.prototype.startsWith
StartsWith(s, pat) == MatchAt(s, pat, 1)

\* String.prototype.endsWith
EndsWith(s, pat) == MatchAt(s, pat, Len(s) - Len(pat) + 1)

RECURSIVE IndexFrom(_, _, _)
IndexFrom(s, pat, k) ==
    IF k + Len(pat) - 1 > Len(s)
    THEN 0
    ELSE IF MatchAt(s, pat, k) THEN k ELSE IndexFrom(s, pat, k + 1)

\* String.prototype.indexOf, 1-based; 0 when pat does not occur
IndexOf(s, pat) == IndexFrom(s, pat, 1)

\* String.prototype.includes
Includes(s, pat) == IndexOf(s, pat) # 0

\* String.prototype.replace with a string pattern: the first occurrence
\* only (the replacements used here hold no $-pattern of replace)
Replace(s, pat, rep) ==
    LET k == IndexOf(s, pat)
    IN  IF k = 0
        THEN s
        ELSE SubSeq(s, 1, k - 1) \o rep \o SubSeq(s, k + Len(pat), Len(s))

\* String.prototype.replace with a global one-character regular expression
ReplaceAllChar(s, c, rep) == [k \in 1..Len(s) |-> IF s[k] = c THEN rep ELSE s[k]]

RECURSIVE SplitFrom(_, _, _, _)
SplitFrom(s, sep, k, cur) ==
    IF k > Len(s)
    THEN <<cur>>
    ELSE IF s[k] = sep
         THEN <<cur>> \o SplitFrom(s, sep, k + 1, <<>>)
         ELSE SplitFrom(s, sep, k + 1, Append(cur, s[k]))

\* String.prototype.split on a one-character separator
Split(s, sep) == SplitFrom(s, sep, 1, <<>>)

\* Array.prototype.filter(Boolean) on an array of strings: '' is falsy
FilterBoolean(parts) == SelectSeq(parts, LAMBDA p : p # <<>>)

(***************************************************************************)
(* String literals of the source.                                          *)
(***************************************************************************)
\* the fixed API origin prefixed to every URL
ApiOrigin == <<"h","t","t","p","s",":","/","/","a","p","i","-","w","e","a","f","i","n","i","t","y",".","m","a","d","f","e","n","i","x",".","c","o","m">>

\* the path prefix extractOperations matches, up to the resource
AccountPrefix == <<"/","a","p","i","/","{","a","c","c","o","u","n","t","}","/">>

\* the segment that shifts the resource name one segment to the right
ManagerSegment == <<"m","a","n","a","g","e","r">>

ManagerPrefix == <<"m","a","n","a","g","e","r","/">>

\* the placeholder resolveMapping substitutes the account for (three c's)
AccountTypo == <<"{","a","c","c","c","o","u","n","t","}">>

\* the runtime-expression placeholder of a path parameter
ParameterOpen == <<"{","{","$","p","a","r","a","m","e","t","e","r",".">>

ParameterClose == <<"}","}">>

\* the hints that route an entry to the query map
QueryHint == <<"q","u","e","r","y">>

QueryParameterHint == <<"q","u","e","r","y"," ","p","a","r","a","m","e","t","e","r">>

InQueryHint == <<"i","n",":"," ","q","u","e","r","y">>

\* the suffixes that mark a sub-endpoint, not a resource
excludedSuffixes == <<<<"d","o","w","n","l","o","a","d">>, <<"f","i","e","l","d","s">>, <<"u","p","l","o","a","d">>>>

(***************************************************************************)
(* Input data: the strings of the schema documents and of the user's       *)
(* entries the model runs the engine on.                                   *)
(***************************************************************************)
acme == <<"a","c","m","e">>
s_id == <<"i","d">>
s_searchQuery == <<"s","e","a","r","c","h","Q","u","e","r","y">>
s_page == <<"p","a","g","e">>
s_trace == <<"t","r","a","c","e">>
s_title == <<"t","i","t","l","e">>
s_count == <<"c","o","u","n","t">>
s_bogus == <<"b","o","g","u","s">>
s_42 == <<"4","2">>
s_7 == <<"7">>
s_x == <<"x">>
s_get == <<"g","e","t">>
s_put == <<"p","u","t">>
s_post == <<"p","o","s","t">>
s_widgets == <<"w","i","d","g","e","t","s">>
s_widget == <<"w","i","d","g","e","t">>
s_tags == <<"t","a","g","s">>
s_things == <<"t","h","i","n","g","s">>
s_getWidget == <<"g","e","t","W","i","d","g","e","t">>
s_updateWidget == <<"u","p","d","a","t","e","W","i","d","g","e","t">>
s_createWidget == <<"c","r","e","a","t","e","W","i","d","g","e","t">>
s_getThing == <<"g","e","t","T","h","i","n","g">>
s_bulk == <<"b","u","l","k">>
s_nosuchOp == <<"n","o","s","u","c","h","O","p">>
s_List == <<"L","i","s","t">>
d_page == <<"P","a","g","e",","," ","a"," ","Q","u","e","r","y"," ","P","a","r","a","m","e","t","e","r">>
d_inquery == <<"i","n",":"," ","q","u","e","r","y">>
d_plain == <<"p","l","a","i","n">>
u_widget42 == <<"/","a","p","i","/","a","c","m","e","/","w","i","d","g","e","t","s","/","4","2">>
u_tags == <<"/","a","p","i","/","a","c","m","e","/","m","a","n","a","g","e","r","/","t","a","g","s">>
p_widget == <<"/","a","p","i","/","{","a","c","c","o","u","n","t","}","/","w","i","d","g","e","t","s","/","{","i","d","}">>
p_widgets == <<"/","a","p","i","/","{","a","c","c","o","u","n","t","}","/","w","i","d","g","e","t","s">>
p_upload == <<"/","a","p","i","/","{","a","c","c","o","u","n","t","}","/","w","i","d","g","e","t","s","/","{","i","d","}","/","u","p","l","o","a","d">>
p_tags == <<"/","a","p","i","/","{","a","c","c","o","u","n","t","}","/","m","a","n","a","g","e","r","/","t","a","g","s">>
p_bulkdownload == <<"/","a","p","i","/","{","a","c","c","o","u","n","t","}","/","b","u","l","k","d","o","w","n","l","o","a","d">>
p_fields == <<"/","a","p","i","/","{","a","c","c","o","u","n","t","}","/","m","a","n","a","g","e","r","/","f","i","e","l","d","s">>
p_manager == <<"/","a","p","i","/","{","a","c","c","o","u","n","t","}","/","m","a","n","a","g","e","r">>
p_health == <<"/","a","p","i","/","h","e","a","l","t","h">>
p_thing == <<"/","a","p","i","/","{","a","c","c","o","u","n","t","}","/","t","h","i","n","g","s","/","{","a","c","c","c","o","u","n","t","}","/","{","i","d","}">>

(***************************************************************************)
(* The schema document (IOpenApiSchema).  An optional string that the code *)
(* reads through || or ?. is the empty string when absent; an optional     *)
(* array or object is <<>> when absent and <<v>> when present.  An object's*)
(* keys are a sequence in the order Object.keys / for-in enumerate them.   *)
(***************************************************************************)
None == <<>>
Some(v) == <<v>>

Param(name, in, description, required, type, default) ==
    [name |-> name, in |-> in, description |-> description,
     required |-> required, type |-> type, default |-> default]

BodyProp(name, type, description, default) ==
    [name |-> name, type |-> type, description |-> description, default |-> default]

\* requestBody.content['application/json'].schema
BodySchema(properties, required) == [properties |-> properties, required |-> required]

Endpoint(operationId, summary, parameters, requestBody) ==
    [operationId |-> operationId, summary |-> summary,
     parameters |-> parameters, requestBody |-> requestBody]

Method(method, endpoint) == [method |-> method, endpoint |-> endpoint]

PathItem(path, methods) == [path |-> path, methods |-> methods]

par_id == Param(s_id, "path", None, TRUE, "string", None)
par_searchQuery == Param(s_searchQuery, "query", d_plain, FALSE, "string", None)
par_page == Param(s_page, "query", d_page, FALSE, "number", s_7)
par_trace == Param(s_trace, "header", None, FALSE, "string", None)
prop_title == BodyProp(s_title, "string", d_plain, None)
prop_count == BodyProp(s_count, "number", d_inquery, s_7)

item_widget == PathItem(p_widget, <<
    Method(s_get, Endpoint(s_getWidget, None, Some(<<par_id>>), None)),
    Method(s_put, Endpoint(s_updateWidget, None,
                           Some(<<par_trace, par_id, par_searchQuery>>),
                           Some(BodySchema(<<prop_title, prop_count>>, Some(<<s_title>>))))) >>)

item_widgets == PathItem(p_widgets, <<
    Method(s_get, Endpoint(None, s_List, Some(<<par_searchQuery, par_page>>), None)),
    Method(s_post, Endpoint(s_createWidget, None, None,
                            Some(BodySchema(<<prop_count, prop_title>>, None)))) >>)

item_upload == PathItem(p_upload, <<
    Method(s_post, Endpoint(None, None, Some(<<par_id>>), None)) >>)

item_tags == PathItem(p_tags, <<
    Method(s_get, Endpoint(None, None, None, None)) >>)

item_bulkdownload == PathItem(p_bulkdownload, <<
    Method(s_get, Endpoint(s_bulk, None, Some(<<>>), None)) >>)

item_fields == PathItem(p_fields, <<
    Method(s_get, Endpoint(None, None, None, None)) >>)

item_manager == PathItem(p_manager, <<
    Method(s_get, Endpoint(None, None, None, None)) >>)

item_health == PathItem(p_health, <<
    Method(s_get, Endpoint(None, None, None, None)) >>)

\* a second operation under the id getWidget, on another path
item_thing == PathItem(p_thing, <<
    Method(s_get, Endpoint(s_getThing, None, Some(<<par_id>>), None)),
    Method(s_put, Endpoint(s_getWidget, None, Some(<<par_page>>), None)) >>)

\* the documents docs.openapi.yaml may hold when it is read
DocA == [paths |-> <<item_widget, item_tags, item_bulkdownload>>]
DocB == [paths |-> <<item_widgets, item_tags>>]
Documents == {DocA, DocB}

\* the documents the execute runs are checked on
DocC == [paths |-> <<item_widget, item_widgets, item_tags, item_thing>>]

PathPool == {item_widget, item_widgets, item_upload, item_tags, item_bulkdownload,
             item_fields, item_manager, item_health, item_thing}

RECURSIVE SeqsOfDistinct(_, _)
SeqsOfDistinct(S, n) ==
    IF n = 0
    THEN {<<>>}
    ELSE LET shorter == SeqsOfDistinct(S, n - 1)
         IN  shorter \cup
             {Append(q, x) : <<q, x>> \in
                 {<<q, x>> \in shorter \X S :
                     /\ Len(q) = n - 1
                     /\ \A k \in 1..Len(q) : q[k] # x}}

\* every document of at most MaxPaths path templates of the pool, in every order
GeneratedDocuments == {[paths |-> q] : q \in SeqsOfDistinct(PathPool, MaxPaths)}

ParameterPool == {item_widget, item_widgets, item_tags, item_thing}
ParameterDocuments == {[paths |-> q] : q \in SeqsOfDistinct(ParameterPool, MaxParameterPaths)}

\* schema.paths[path][method]
EndpointOf(schema, path, method) ==
    LET item == CHOOSE it \in {schema.paths[k] : k \in 1..Len(schema.paths)} :
                    it.path = path
        m == CHOOSE mm \in {item.methods[k] : k \in 1..Len(item.methods)} :
                    mm.method = method
    IN  m.endpoint

(***************************************************************************)
(* extractResources                                                        *)
(***************************************************************************)
\* as HasExcludedSuffix, but testing the start of the name
HasExcludedPrefix(resource) ==
    \E k \in 1..Len(excludedSuffixes) : StartsWith(resource, excludedSuffixes[k])

\* excludedSuffixes.some(suffix => resource.endsWith(suffix))
HasExcludedSuffix(resource) ==
    \E k \in 1..Len(excludedSuffixes) : EndsWith(resource, excludedSuffixes[k])

\* resources[resource] = resource on an object whose keys are the sequence keys
SetKey(keys, key) ==
    IF \E k \in 1..Len(keys) : keys[k] = key THEN keys ELSE Append(keys, key)

\* the body of the loop over schema.paths, for one path
ResourceStep(keys, path) ==
    LET pathParts == FilterBoolean(Split(path, "/"))
    IN  IF Len(pathParts) > 2
        THEN IF pathParts[3] = ManagerSegment /\ Len(pathParts) > 3
             THEN LET resource == pathParts[4]
                  IN  IF resource # <<>> /\ ~HasExcludedSuffix(resource)
                      THEN SetKey(keys, resource)
                      ELSE keys
             ELSE LET resource == pathParts[3]
                  IN  IF resource # <<>> /\ ~HasExcludedSuffix(resource)
                      THEN SetKey(keys, resource)
                      ELSE keys
        ELSE keys

RECURSIVE ResourceKeys(_, _, _)
ResourceKeys(paths, k, keys) ==
    IF k > Len(paths)
    THEN keys
    ELSE ResourceKeys(paths, k + 1, ResourceStep(keys, paths[k].path))

\* resource.charAt(0).toUpperCase() + resource.slice(1)
Capitalize(s) ==
    IF s = <<>> THEN s ELSE <<UpperChar(s[1])>> \o SubSeq(s, 2, Len(s))

extractResources(schema) ==
    LET keys == ResourceKeys(schema.paths, 1, <<>>)
    IN  [k \in 1..Len(keys) |-> [name |-> Capitalize(keys[k]), value |-> keys[k]]]

(***************************************************************************)
(* extractOperations                                                       *)
(***************************************************************************)
\* path.startsWith(`/api/{account}/${resource}`) ||
\* path.startsWith(`/api/{account}/manager/${resource}`)
PathOfResource(path, resource) ==
    \/ StartsWith(path, AccountPrefix \o resource)
    \/ StartsWith(path, AccountPrefix \o ManagerPrefix \o resource)

\* endpoint.operationId || `${method}${path.replace(/\//g, '_')}`
OperationIdOf(endpoint, method, path) ==
    IF endpoint.operationId # <<>>
    THEN endpoint.operationId
    ELSE method \o ReplaceAllChar(path, "/", "_")

\* endpoint.summary || `${method.toUpperCase()} ${path}`
SummaryOf(endpoint, method, path) ==
    IF endpoint.summary # <<>>
    THEN endpoint.summary
    ELSE ToUpperCase(method) \o <<" ">> \o path

\* operations[operationId] = {...}: a key already present keeps its place
SetOperation(operations, op) ==
    IF \E k \in 1..Len(operations) : operations[k].value = op.value
    THEN [k \in 1..Len(operations) |->
            IF operations[k].value = op.value THEN op ELSE operations[k]]
    ELSE Append(operations, op)

RECURSIVE MethodOperations(_, _, _, _)
MethodOperations(path, methods, k, operations) ==
    IF k > Len(methods)
    THEN operations
    ELSE LET method == methods[k].method
             endpoint == methods[k].endpoint
         IN  MethodOperations(path, methods, k + 1,
                 SetOperation(operations,
                     [name |-> SummaryOf(endpoint, method, path),
                      value |-> OperationIdOf(endpoint, method, path),
                      path |-> path,
                      method |-> method]))

RECURSIVE PathOperations(_, _, _, _)
PathOperations(paths, resource, k, operations) ==
    IF k > Len(paths)
    THEN operations
    ELSE PathOperations(paths, resource, k + 1,
             IF PathOfResource(paths[k].path, resource)
             THEN MethodOperations(paths[k].path, paths[k].methods, 1, operations)
             ELSE operations)

\* the operations table extractOperations builds and stores
OperationsOf(schema, resource) == PathOperations(schema.paths, resource, 1, <<>>)

\* resourcesCache[resource] = operations
CachePut(cache, resource, operations) ==
    [r \in DOMAIN cache \cup {resource} |->
        IF r = resource THEN operations ELSE cache[r]]

\* extractOperations: the options returned and the cache it leaves
extractOperations(schema, resource, cache) ==
    LET operations == OperationsOf(schema, resource)
    IN  [options |-> [k \in 1..Len(operations) |->
                        [name |-> operations[k].name, value |-> operations[k].value]],
         cache |-> CachePut(cache, resource, operations)]

\* resourcesCache[resource] is set.  The resource names and operation ids the
\* model passes are not names of Object.prototype properties, so a lookup
\* finds own keys only.
HasResource(cache, resource) == resource \in DOMAIN cache

\* resourcesCache[resource][operationId] is set
HasOperation(cache, resource, operationId) ==
    /\ HasResource(cache, resource)
    /\ \E k \in 1..Len(cache[resource]) : cache[resource][k].value = operationId

\* resourcesCache[resource][operationId], where HasOperation
OperationAt(cache, resource, operationId) ==
    cache[resource][CHOOSE k \in 1..Len(cache[resource]) :
                        cache[resource][k].value = operationId]

(***************************************************************************)
(* fetchOpenApiSchema.  source is what reading and parsing the file yields *)
(* if it is read now: a failure, or the parsed value, which is null (None) *)
(* for an empty file.                                                      *)
(***************************************************************************)
ReadFails == [ok |-> FALSE, parsed |-> None]
Sources == {ReadFails, [ok |-> TRUE, parsed |-> None]}
               \cup {[ok |-> TRUE, parsed |-> Some(d)] : d \in Documents}

\* as SchemaCached, but never taking the cached value
SchemaNeverCached(schemaCache) == FALSE

\* if (openApiSchemaCache)
SchemaCached(schemaCache) == schemaCache # None

\* as fetchOpenApiSchema, but storing an empty document when the load fails
fetchOpenApiSchemaPoisoned(schemaCache, source) ==
    IF SchemaCached(schemaCache)
    THEN [status |-> "ok", schema |-> schemaCache, schemaCache |-> schemaCache,
          read |-> FALSE]
    ELSE IF source.ok
         THEN [status |-> "ok", schema |-> source.parsed,
               schemaCache |-> source.parsed, read |-> TRUE]
         ELSE [status |-> "error", schema |-> None,
               schemaCache |-> Some([paths |-> <<>>]), read |-> TRUE]

fetchOpenApiSchema(schemaCache, source) ==
    IF SchemaCached(schemaCache)
    THEN [status |-> "ok", schema |-> schemaCache, schemaCache |-> schemaCache,
          read |-> FALSE]
    ELSE IF source.ok
         THEN [status |-> "ok", schema |-> source.parsed,
               schemaCache |-> source.parsed, read |-> TRUE]
         ELSE [status |-> "error", schema |-> None, schemaCache |-> schemaCache,
               read |-> TRUE]

(***************************************************************************)
(* generateProperties                                                      *)
(***************************************************************************)
\* param.schema?.type === 'number' ? 'number' : 'string'
FieldType(type) == IF type = "number" THEN "number" ELSE "string"

Property(name, type, required, default, description) ==
    [displayName |-> name, name |-> name, type |-> FieldType(type),
     required |-> required, default |-> default, description |-> description]

\* param.in === 'path' || param.in === 'query'
IsUrlParameter(param) == param.in = "path" \/ param.in = "query"

RECURSIVE PushParameters(_, _, _)
PushParameters(parameters, k, properties) ==
    IF k > Len(parameters)
    THEN properties
    ELSE PushParameters(parameters, k + 1,
             IF IsUrlParameter(parameters[k])
             THEN Append(properties,
                      Property(parameters[k].name, parameters[k].type,
                               parameters[k].required, parameters[k].default,
                               parameters[k].description))
             ELSE properties)

\* requiredFields.includes(propName), requiredFields = bodySchema.required || []
IsRequiredField(bodySchema, propName) ==
    /\ bodySchema.required # None
    /\ \E k \in 1..Len(bodySchema.required[1]) : bodySchema.required[1][k] = propName

RECURSIVE PushBodyProperties(_, _, _)
PushBodyProperties(bodySchema, k, properties) ==
    IF k > Len(bodySchema.properties)
    THEN properties
    ELSE LET prop == bodySchema.properties[k]
         IN  PushBodyProperties(bodySchema, k + 1,
                 Append(properties,
                     Property(prop.name, prop.type,
                              IsRequiredField(bodySchema, prop.name),
                              prop.default, prop.description)))

\* as EndpointProperties, but with the body parameters first
EndpointPropertiesBodyFirst(endpoint) ==
    LET bodyProperties ==
            IF endpoint.requestBody # None
            THEN PushBodyProperties(endpoint.requestBody[1], 1, <<>>)
            ELSE <<>>
    IN  IF endpoint.parameters # None
        THEN PushParameters(endpoint.parameters[1], 1, bodyProperties)
        ELSE bodyProperties

\* the properties of one endpoint: URL parameters, then body parameters
EndpointProperties(endpoint) ==
    LET urlProperties ==
            IF endpoint.parameters # None
            THEN PushParameters(endpoint.parameters[1], 1, <<>>)
            ELSE <<>>
    IN  IF endpoint.requestBody # None
        THEN PushBodyProperties(endpoint.requestBody[1], 1, urlProperties)
        ELSE urlProperties

\* generateProperties reads resourcesCache[resource][operationId]: a
\* TypeError when the resource has no entry, an ApplicationError when the
\* entry lacks the operation
generateProperties(schema, cache, resource, operationId) ==
    IF ~HasResource(cache, resource)
    THEN [status |-> "error", error |-> <<"TypeError">>, properties |-> <<>>]
    ELSE IF ~HasOperation(cache, resource, operationId)
         THEN [status |-> "error", error |-> <<"Operation not found">>,
               properties |-> <<>>]
         ELSE LET operation == OperationAt(cache, resource, operationId)
              IN  [status |-> "ok", error |-> <<>>,
                   properties |->
                       EndpointProperties(
                           EndpointOf(schema, operation.path, operation.method))]

(***************************************************************************)
(* resolveMapping                                                          *)
(***************************************************************************)
\* as NeedsRebuild, but testing the resource entry alone
NeedsRebuildResourceOnly(cache, resource, operationId) ==
    ~HasResource(cache, resource)

\* !resourcesCache[resource] || !resourcesCache[resource][operationId]
NeedsRebuild(cache, resource, operationId) ==
    \/ ~HasResource(cache, resource)
    \/ ~HasOperation(cache, resource, operationId)

\* `{${param.name}}`
PathPlaceholder(name) == <<"{">> \o name \o <<"}">>

\* `{{$parameter.${name}}}`
ParameterPlaceholder(name) == ParameterOpen \o name \o ParameterClose

RECURSIVE ReplacePathParameters(_, _, _)
ReplacePathParameters(parameters, k, url) ==
    IF k > Len(parameters)
    THEN url
    ELSE ReplacePathParameters(parameters, k + 1,
             IF parameters[k].in = "path"
             THEN Replace(url, PathPlaceholder(parameters[k].name),
                          ParameterPlaceholder(parameters[k].name))
             ELSE url)

\* processedUrl: the account and the path parameters are substituted only
\* when the endpoint declares parameters
ProcessedUrl(endpoint, path, account) ==
    IF endpoint.parameters # None
    THEN ReplacePathParameters(endpoint.parameters[1], 1,
                               Replace(path, AccountTypo, account))
    ELSE path

NoRequest == [method |-> <<>>, url |-> <<>>]

\* the catch of resolveMapping: the inner failure, wrapped; f is what
\* fetchOpenApiSchema returned
MappingError(inner, f, cache, rebuilt, generated) ==
    [status |-> "error", error |-> <<"Failed to resolve mapping">> \o inner,
     request |-> NoRequest, properties |-> <<>>,
     fetch |-> f, cache |-> cache, rebuilt |-> rebuilt, generated |-> generated]

\* as OperationNotFound, but returning an empty request instead of throwing
OperationNotFoundDefault(f, cache, rebuilt) ==
    [status |-> "ok", error |-> <<>>, request |-> NoRequest, properties |-> <<>>,
     fetch |-> f, cache |-> cache, rebuilt |-> rebuilt, generated |-> None]

\* if (!operation) throw new ApplicationError(`Operation ... not found ...`)
OperationNotFound(f, cache, rebuilt) ==
    MappingError(<<"Operation not found">>, f, cache, rebuilt, None)

\* resolveMapping: its result, what fetchOpenApiSchema returned (fetch), the
\* operation-record cache as it leaves it, whether it re-ran
\* extractOperations (rebuilt), and, when generateProperties ran, whether the
\* cache then held the operation (generated)
resolveMapping(schemaCache, cache, source, resource, operationId, account) ==
    LET f == fetchOpenApiSchema(schemaCache, source)
    IN  IF f.status = "error"
        THEN MappingError(<<"Failed to load OpenAPI schema from file">>,
                          f, cache, FALSE, None)
        ELSE IF f.schema = None
        THEN \* schema.paths of null
             MappingError(<<"TypeError">>, f, cache, FALSE, None)
        ELSE
        LET schema == f.schema[1]
            rebuild == NeedsRebuild(cache, resource, operationId)
            cache1 == IF rebuild
                      THEN extractOperations(schema, resource, cache).cache
                      ELSE cache
        IN  IF ~HasResource(cache1, resource)
            THEN \* resourcesCache[resource][operationId] of undefined
                 MappingError(<<"TypeError">>, f, cache1, rebuild, None)
            ELSE IF ~HasOperation(cache1, resource, operationId)
            THEN OperationNotFound(f, cache1, rebuild)
            ELSE
            LET operation == OperationAt(cache1, resource, operationId)
                entry == Some(HasOperation(cache1, resource, operationId))
                g == generateProperties(schema, cache1, resource, operationId)
                endpoint == EndpointOf(schema, operation.path, operation.method)
            IN  IF g.status = "error"
                THEN MappingError(g.error, f, cache1, rebuild, entry)
                ELSE [status |-> "ok", error |-> <<>>,
                      request |->
                          [method |-> ToUpperCase(operation.method),
                           url |-> ApiOrigin \o
                                   ProcessedUrl(endpoint, operation.path, account)],
                      properties |-> g.properties,
                      fetch |-> f, cache |-> cache1,
                      rebuilt |-> rebuild, generated |-> entry]

(***************************************************************************)
(* The per-item finalization of execute.                                   *)
(***************************************************************************)
\* properties.find(p => p.name === name)
PropertyDefined(properties, name) ==
    \E k \in 1..Len(properties) : properties[k].name = name

PropertyDef(properties, name) ==
    properties[CHOOSE k \in 1..Len(properties) :
                  /\ properties[k].name = name
                  /\ \A j \in 1..(k - 1) : properties[j].name # name]

\* as IsQueryParameter, but matching the name without lower-casing it
IsQueryParameterCaseSensitive(name, propertyDef) ==
    \/ Includes(name, QueryHint)
    \/ Includes(ToLowerCase(propertyDef.description), QueryParameterHint)
    \/ Includes(ToLowerCase(propertyDef.description), InQueryHint)

\* name.toLowerCase().includes('query') ||
\* description?.toLowerCase().includes('query parameter') ||
\* description?.toLowerCase().includes('in: query')
IsQueryParameter(name, propertyDef) ==
    \/ Includes(ToLowerCase(name), QueryHint)
    \/ Includes(ToLowerCase(propertyDef.description), QueryParameterHint)
    \/ Includes(ToLowerCase(propertyDef.description), InQueryHint)

\* object[name] = value
MapPut(map, name, value) ==
    [n \in DOMAIN map \cup {name} |-> IF n = name THEN value ELSE map[n]]

\* the body of the loop over the entries, for one entry; acc holds
\* request.url, body, queryParameters and the URL each entry met (urlAt)
EntryStep(acc, properties, param) ==
    LET name == param.name
        value == param.value
        seen == [acc EXCEPT !.urlAt = Append(acc.urlAt, acc.url)]
    IN  IF ~PropertyDefined(properties, name)
        THEN seen
        ELSE IF Includes(acc.url, ParameterPlaceholder(name))
        THEN [seen EXCEPT !.url = Replace(acc.url, ParameterPlaceholder(name), value)]
        ELSE IF IsQueryParameter(name, PropertyDef(properties, name))
        THEN [seen EXCEPT !.queryParameters = MapPut(acc.queryParameters, name, value)]
        ELSE [seen EXCEPT !.body = MapPut(acc.body, name, value)]

\* as ProcessParameters, but consuming the entries last to first
RECURSIVE ProcessParametersReversed(_, _, _, _)
ProcessParametersReversed(parameters, properties, k, acc) ==
    IF k > Len(parameters)
    THEN acc
    ELSE ProcessParametersReversed(parameters, properties, k + 1,
             EntryStep(acc, properties, parameters[Len(parameters) - k + 1]))

RECURSIVE ProcessParameters(_, _, _, _)
ProcessParameters(parameters, properties, k, acc) ==
    IF k > Len(parameters)
    THEN acc
    ELSE ProcessParameters(parameters, properties, k + 1,
                           EntryStep(acc, properties, parameters[k]))

\* Object.keys(map).length > 0 ? map : undefined
OrUndefined(map) == IF DOMAIN map # {} THEN Some(map) ELSE None

\* one item: the entries consumed, the request options sent, and
\* request.url as the item leaves it
FinalizeItem(request, properties, parameters) ==
    LET acc == ProcessParameters(parameters, properties, 1,
                   [url |-> request.url, body |-> <<>>, queryParameters |-> <<>>,
                    urlAt |-> <<>>])
    IN  [parameters |-> parameters,
         urlAt |-> acc.urlAt,
         options |-> [method |-> request.method,
                      url |-> acc.url,
                      body |-> OrUndefined(acc.body),
                      qs |-> OrUndefined(acc.queryParameters)]]

Response == [kind |-> "response", message |-> "body"]
ErrorRecord == [kind |-> "error", message |-> "request failed"]

\* as ItemFailed, but rethrowing whatever the flag says
ItemFailedThrows(run_, continueOnFail) ==
    [run_ EXCEPT !.pc = "failed", !.error = <<"request failed">>]

\* the catch of the per-item try: what a failed item leaves, given
\* this.continueOnFail()
ItemFailed(run_, continueOnFail) ==
    IF continueOnFail
    THEN [run_ EXCEPT !.returnData = Append(run_.returnData, ErrorRecord),
                      !.i = run_.i + 1]
    ELSE [run_ EXCEPT !.pc = "failed", !.error = <<"request failed">>]

(***************************************************************************)
(* State.                                                                  *)
(***************************************************************************)
VARIABLES
    openApiSchemaCache,   \* let openApiSchemaCache: None (null) or Some(document)
    resourcesCache,       \* let resourcesCache: resource -> operations table
    reads,                \* how many times the schema file has been read
    fetched,              \* what the last fetchOpenApiSchema call returned
    last,                 \* the last loadOptions call or resolveMapping of execute
    run                   \* the execute invocation: its locals and position

vars == <<openApiSchemaCache, resourcesCache, reads, fetched, last, run>>

\* the synthesized id of GET /api/{account}/manager/tags
s_getTags == s_get \o ReplaceAllChar(p_tags, "/", "_")
\* the synthesized id of GET /api/{account}/widgets
s_listWidgets == s_get \o ReplaceAllChar(p_widgets, "/", "_")

\* the values the host passes for the node parameters
Accounts == {acme}
ResourceInputs == {s_widgets, s_tags}
OperationInputs == {s_getWidget, s_getTags, s_nosuchOp, <<>>}
MoreResourceInputs == {s_widgets, s_tags, s_things, s_widget}
MoreOperationInputs == {s_getWidget, s_updateWidget, s_createWidget, s_listWidgets,
                        s_getTags, s_getThing}

Entry(name, value) == [name |-> name, value |-> value]

\* the entry lists of parameters.parameter one item may carry
FewEntryLists == {<<>>, <<Entry(s_id, s_42)>>}
EntryLists == {<<>>,
               <<Entry(s_id, s_42)>>,
               <<Entry(s_id, s_7), Entry(s_searchQuery, s_x)>>,
               <<Entry(s_searchQuery, s_x), Entry(s_title, s_x), Entry(s_bogus, s_x)>>,
               <<Entry(s_id, s_42), Entry(s_id, s_7)>>,
               <<Entry(s_page, s_7), Entry(s_count, s_7), Entry(s_id, s_7)>>}

IdleRun ==
    [pc |-> "idle", account |-> <<>>, resource |-> <<>>, operation |-> <<>>,
     continueOnFail |-> FALSE, nItems |-> 0, i |-> 0,
     request |-> NoRequest, properties |-> <<>>,
     returnData |-> <<>>, outcomes |-> <<>>, sent |-> None, error |-> <<>>]

NoCall ==
    [handler |-> "none", account |-> <<>>, resource |-> <<>>, operation |-> <<>>,
     status |-> "none", error |-> <<>>, options |-> <<>>, mapping |-> None]

NotFetched == [status |-> "none", schema |-> None]

Init ==
    /\ openApiSchemaCache = None
    /\ resourcesCache = <<>>
    /\ reads = 0
    /\ fetched = NotFetched
    /\ last = NoCall
    /\ run = IdleRun

\* what the file may yield to a call: it is read only when nothing is cached,
\* so otherwise what it holds is of no account
SourcesFor(schemaCache) ==
    IF SchemaCached(schemaCache) THEN {ReadFails} ELSE Sources

\* a call of fetchOpenApiSchema that returned f
Fetched(f) ==
    /\ f.read => reads < MaxReads
    /\ openApiSchemaCache' = f.schemaCache
    /\ reads' = IF f.read THEN reads + 1 ELSE reads
    /\ fetched' = [status |-> f.status, schema |-> f.schema]

\* the loadOptions handlers wrap what they catch
Failed(handler, account, resource, operation, prefix, inner) ==
    [handler |-> handler, account |-> account, resource |-> resource,
     operation |-> operation, status |-> "error", error |-> <<prefix>> \o inner,
     options |-> <<>>, mapping |-> None]

Returned(handler, account, resource, operation, options) ==
    [handler |-> handler, account |-> account, resource |-> resource,
     operation |-> operation, status |-> "ok", error |-> <<>>,
     options |-> options, mapping |-> None]

\* what a resolveMapping call leaves to look at
MappingOf(m) ==
    Some([status |-> m.status, error |-> m.error, request |-> m.request,
          properties |-> m.properties, rebuilt |-> m.rebuilt,
          generated |-> m.generated])

(***************************************************************************)
(* The loadOptions handlers.                                               *)
(***************************************************************************)
getResources ==
    \E source \in SourcesFor(openApiSchemaCache) :
        LET f == fetchOpenApiSchema(openApiSchemaCache, source)
        IN  /\ Fetched(f)
            /\ last' =
                 IF f.status = "error"
                 THEN Failed("getResources", <<>>, <<>>, <<>>, "Failed to load resources",
                             <<"Failed to load OpenAPI schema from file">>)
                 ELSE IF f.schema = None
                 THEN Failed("getResources", <<>>, <<>>, <<>>, "Failed to load resources",
                             <<"TypeError">>)
                 ELSE Returned("getResources", <<>>, <<>>, <<>>,
                               extractResources(f.schema[1]))
            /\ UNCHANGED <<resourcesCache, run>>

getOperations(resources) ==
    \E source \in SourcesFor(openApiSchemaCache), resource \in resources :
        LET f == fetchOpenApiSchema(openApiSchemaCache, source)
        IN  /\ Fetched(f)
            /\ IF f.status = "error"
               THEN /\ last' = Failed("getOperations", <<>>, resource, <<>>,
                                      "Failed to load operations",
                                      <<"Failed to load OpenAPI schema from file">>)
                    /\ UNCHANGED resourcesCache
               ELSE IF f.schema = None
               THEN /\ last' = Failed("getOperations", <<>>, resource, <<>>,
                                      "Failed to load operations", <<"TypeError">>)
                    /\ UNCHANGED resourcesCache
               ELSE LET e == extractOperations(f.schema[1], resource, resourcesCache)
                    IN  /\ last' = Returned("getOperations", <<>>, resource, <<>>,
                                            e.options)
                        /\ resourcesCache' = e.cache
            /\ UNCHANGED run

\* properties.map(property => ({name, value, description}))
FieldOptions(properties) ==
    [k \in 1..Len(properties) |->
        [name |-> IF properties[k].displayName # <<>>
                  THEN properties[k].displayName
                  ELSE properties[k].name,
         value |-> properties[k].name,
         description |-> properties[k].description]]

getAdditionalFields(resources, operations) ==
    \E source \in SourcesFor(openApiSchemaCache), account \in Accounts,
       resource \in resources, operation \in operations :
        IF resource = <<>> \/ operation = <<>>
        THEN \* if (!resource || !operation) return []
             /\ last' = Returned("getAdditionalFields", account, resource, operation,
                                 <<>>)
             /\ UNCHANGED <<openApiSchemaCache, resourcesCache, reads, fetched, run>>
        ELSE LET m == resolveMapping(openApiSchemaCache, resourcesCache, source,
                                     resource, operation, account)
             IN  /\ Fetched(m.fetch)
                 /\ resourcesCache' = m.cache
                 /\ last' =
                      [IF m.status = "error"
                       THEN Failed("getAdditionalFields", account, resource, operation,
                                   "Failed to load additional fields", m.error)
                       ELSE Returned("getAdditionalFields", account, resource, operation,
                                     FieldOptions(m.properties))
                       EXCEPT !.mapping = MappingOf(m)]
                 /\ UNCHANGED run

(***************************************************************************)
(* execute.                                                                *)
(***************************************************************************)
\* from the call to the first await inside the loop: the node parameters,
\* resolveMapping, and the loop's first test.  A rejected execute keeps
\* nothing but its error.
executeStart(resources, operations) ==
    /\ run.pc = "idle"
    /\ \E source \in SourcesFor(openApiSchemaCache), account \in Accounts,
          resource \in resources, operation \in operations :
        LET m == resolveMapping(openApiSchemaCache, resourcesCache, source,
                                resource, operation, account)
        IN  /\ Fetched(m.fetch)
            /\ resourcesCache' = m.cache
            /\ last' = [IF m.status = "error"
                        THEN Failed("execute", account, resource, operation,
                                    m.error[1], Tail(m.error))
                        ELSE Returned("execute", account, resource, operation, <<>>)
                        EXCEPT !.mapping = MappingOf(m)]
            /\ IF m.status = "error"
               THEN run' = [IdleRun EXCEPT !.pc = "failed", !.error = m.error]
               ELSE \E nItems \in 0..MaxItems, continueOnFail \in BOOLEAN :
                      run' = [IdleRun EXCEPT
                                 !.pc = IF nItems = 0 THEN "done" ELSE "loop",
                                 !.account = account, !.resource = resource,
                                 !.operation = operation,
                                 !.continueOnFail = continueOnFail,
                                 !.nItems = nItems,
                                 !.request = m.request,
                                 !.properties = m.properties]

\* one iteration of the loop: the item's entries, the outbound call (which
\* succeeds or throws, as does response.json()), and the catch
executeItem(entryLists) ==
    /\ run.pc = "loop"
    /\ \E parameters \in entryLists, outcome \in {"ok", "fail"} :
        LET sent == FinalizeItem(run.request, run.properties, parameters)
            called == [run EXCEPT !.request.url = sent.options.url,
                                  !.sent = Some(sent),
                                  !.outcomes = Append(run.outcomes, outcome)]
            after == IF outcome = "ok"
                     THEN [called EXCEPT !.returnData = Append(run.returnData, Response),
                                         !.i = run.i + 1]
                     ELSE ItemFailed(called, run.continueOnFail)
        IN  run' = IF after.pc = "loop" /\ after.i = after.nItems
                   THEN [after EXCEPT !.pc = "done"]
                   ELSE after
    /\ UNCHANGED <<openApiSchemaCache, resourcesCache, reads, fetched, last>>

\* execute returns returnData, or rejects: the invocation and its locals end
executeEnd ==
    /\ run.pc \in {"done", "failed"}
    /\ run' = IdleRun
    /\ UNCHANGED <<openApiSchemaCache, resourcesCache, reads, fetched, last>>

(***************************************************************************)
(* Specifications.                                                         *)
(***************************************************************************)
\* one process: the schema file read on demand, the loadOptions handlers and
\* execute runs, one after another and interleaved at the awaits of the loop
Next ==
    \/ getResources
    \/ getOperations(ResourceInputs)
    \/ getAdditionalFields(ResourceInputs, OperationInputs)
    \/ executeStart(ResourceInputs, OperationInputs)
    \/ executeItem(FewEntryLists)
    \/ executeEnd

Spec == Init /\ [][Next]_vars

\* the state after document d was loaded by the first fetchOpenApiSchema
Loaded(d) ==
    /\ openApiSchemaCache = Some(d)
    /\ resourcesCache = <<>>
    /\ reads = 1
    /\ fetched = [status |-> "ok", schema |-> Some(d)]
    /\ last = NoCall
    /\ run = IdleRun

\* one execute run on a loaded document, over every entry list
InitExecute == Loaded(DocC)

NextExecute ==
    \/ executeStart(MoreResourceInputs, MoreOperationInputs)
    \/ executeItem(EntryLists)

SpecExecute == InitExecute /\ [][NextExecute]_vars

\* getResources on every generated document
InitResources == \E d \in GeneratedDocuments : Loaded(d)

NextResources == getResources

SpecResources == InitResources /\ [][NextResources]_vars

\* the operation and field lists of every document made of the paths that
\* declare parameters or a body
InitProperties == \E d \in ParameterDocuments : Loaded(d)

NextProperties ==
    \/ getOperations(MoreResourceInputs)
    \/ getAdditionalFields(MoreResourceInputs, MoreOperationInputs)

SpecProperties == InitProperties /\ [][NextProperties]_vars

(***************************************************************************)
(* Claims.                                                                 *)
(***************************************************************************)
\* the request options of the run's last item
SentOptions == run.sent[1].options

\* C1: building the request for GET /api/{account}/widgets/{id} (one declared
\* path parameter id) with account acme and the single entry {id, 42}
\* yields the URL <origin>/api/acme/widgets/42, with the query map and the
\* body map both omitted.
C1_RoundTrip ==
    ( /\ run.sent # None
      /\ run.account = acme
      /\ run.resource = s_widgets
      /\ run.operation = s_getWidget
      /\ Len(run.outcomes) = 1
      /\ run.sent[1].parameters = <<Entry(s_id, s_42)>> )
    => /\ SentOptions.url = ApiOrigin \o u_widget42
       /\ SentOptions.qs = None
       /\ SentOptions.body = None

\* C2: for a schema holding GET /api/{account}/manager/tags with no declared
\* parameters, resolveMapping with account acme returns method GET and the
\* URL <origin>/api/acme/manager/tags.
C2_TagsMapping ==
    ( /\ last.mapping # None
      /\ last.account = acme
      /\ last.resource = s_tags
      /\ last.operation = s_getTags
      /\ last.mapping[1].status = "ok" )
    => /\ last.mapping[1].request.method = ToUpperCase(s_get)
       /\ last.mapping[1].request.url = ApiOrigin \o u_tags

\* the operation ids extractOperations derives for a resource of the cached
\* document: none while no document is loaded
DerivedIds(resource) ==
    IF openApiSchemaCache = None
    THEN {}
    ELSE LET paths == openApiSchemaCache[1].paths
         IN  {OperationIdOf(paths[k].methods[j].endpoint, paths[k].methods[j].method,
                            paths[k].path) :
                <<k, j>> \in {<<k, j>> \in (1..Len(paths)) \X (1..4) :
                                 /\ j <= Len(paths[k].methods)
                                 /\ PathOfResource(paths[k].path, resource)}}

\* C3: whatever the operation-record cache holds, resolveMapping for an
\* operationId that extractOperations does not derive for the resource ends
\* in an error (operation not found, wrapped as a mapping failure once a
\* document is loaded) and returns no request descriptor.
C3_UnknownOperationFails ==
    ( /\ last.mapping # None
      /\ last.operation \notin DerivedIds(last.resource) )
    => /\ last.status = "error"
       /\ last.mapping[1].status = "error"
       /\ last.mapping[1].request = NoRequest
       /\ last.mapping[1].properties = <<>>
       /\ openApiSchemaCache # None =>
             last.mapping[1].error =
                 <<"Failed to resolve mapping", "Operation not found">>

\* C3 witness: an unknown operation of widgets was refused while the cache
\* held the table of another resource
C3_Witness ==
    /\ last.mapping # None
    /\ last.resource = s_widgets
    /\ last.operation = s_nosuchOp
    /\ last.mapping[1].error = <<"Failed to resolve mapping", "Operation not found">>
    /\ s_tags \in DOMAIN resourcesCache

FetchCall ==
    \/ getResources
    \/ getOperations(ResourceInputs)
    \/ getAdditionalFields(ResourceInputs, OperationInputs \ {<<>>})
    \/ executeStart(ResourceInputs, OperationInputs)

\* C5: a load that fails leaves the schema cache empty and reaches the
\* caller as an error, and a call made while the cache is empty reads the
\* file again.
C5_FailureNotCached ==
    [][/\ (reads' # reads /\ fetched'.status = "error") =>
              /\ openApiSchemaCache = None
              /\ openApiSchemaCache' = None
              /\ last'.status = "error"
              /\ \E k \in 1..Len(last'.error) :
                     last'.error[k] = "Failed to load OpenAPI schema from file"
       /\ (openApiSchemaCache = None /\ FetchCall) => reads' = reads + 1]_vars

\* C5 witness: a second read, after a first that cached nothing, failed
C5_Witness ==
    /\ reads = 2
    /\ fetched.status = "error"
    /\ openApiSchemaCache = None
    /\ last.status = "error"

\* C6: a failed outbound call becomes an {error: message} record and the
\* loop goes on exactly when continue-on-failure is set; when it is not set
\* the first failing item ends the run and no later item is sent.
C6_ContinueOnFail ==
    LET n == Len(run.outcomes)
        failedAt == {k \in 1..n : run.outcomes[k] = "fail"}
    IN  /\ n <= run.nItems
        /\ run.continueOnFail =>
              /\ run.pc # "failed"
              /\ Len(run.returnData) = n
              /\ run.i = n
              /\ \A k \in 1..n :
                    run.returnData[k] =
                        IF k \in failedAt THEN ErrorRecord ELSE Response
              /\ n > 0 => run.pc = IF n = run.nItems THEN "done" ELSE "loop"
        /\ ~run.continueOnFail =>
              /\ failedAt \subseteq {n}
              /\ (run.pc = "failed" /\ n > 0) <=> failedAt # {}
              /\ Len(run.returnData) = n - Cardinality(failedAt)
              /\ \A k \in 1..Len(run.returnData) : run.returnData[k] = Response

\* C6 witness: with the flag set, the first of two items failed, was
\* recorded, and the second item was sent
C6_Witness ==
    /\ run.continueOnFail
    /\ run.outcomes = <<"fail", "ok">>
    /\ run.returnData = <<ErrorRecord, Response>>
    /\ run.pc = "done"

\* whether v ends in suffix, by comparing the tail of v
EndsIn(v, suffix) ==
    /\ Len(v) >= Len(suffix)
    /\ SubSeq(v, Len(v) - Len(suffix) + 1, Len(v)) = suffix

\* C7: extractResources returns no value twice and no value that ends in
\* download, fields or upload.
C7_ResourcesDistinct ==
    (last.handler = "getResources" /\ last.status = "ok") =>
        /\ \A j, k \in 1..Len(last.options) :
              last.options[j].value = last.options[k].value => j = k
        /\ \A k \in 1..Len(last.options) :
              /\ ~EndsIn(last.options[k].value, <<"d","o","w","n","l","o","a","d">>)
              /\ ~EndsIn(last.options[k].value, <<"f","i","e","l","d","s">>)
              /\ ~EndsIn(last.options[k].value, <<"u","p","l","o","a","d">>)

\* C7 witness: a document with two widgets paths and an excluded path
\* yields the one resource widgets
C7_Witness ==
    /\ last.handler = "getResources"
    /\ openApiSchemaCache = Some([paths |-> <<item_widget, item_bulkdownload, item_widgets>>])
    /\ Len(last.options) = 1
    /\ last.options[1].value = s_widgets

\* the names of the properties resolveMapping returned
PropertyNames == [k \in 1..Len(run.properties) |-> run.properties[k].name]

\* C8: an entry whose name is a resolved property, whose placeholder is not
\* in the URL when the entry is met, and whose name contains "query" in any
\* case goes to the query map and not to the body map.
C8_QueryRouting ==
    run.sent # None =>
        \A k \in 1..Len(run.sent[1].parameters) :
            LET name == run.sent[1].parameters[k].name
            IN  ( /\ \E j \in 1..Len(PropertyNames) : PropertyNames[j] = name
                  /\ ~Includes(run.sent[1].urlAt[k],
                               <<"{","{","$","p","a","r","a","m","e","t","e","r",".">>
                                   \o name \o <<"}","}">>)
                  /\ \E j \in 1..Len(name) :
                        j + 4 <= Len(name)
                        /\ ToLowerCase(SubSeq(name, j, j + 4)) = <<"q","u","e","r","y">> )
                => /\ SentOptions.qs # None
                   /\ name \in DOMAIN SentOptions.qs[1]
                   /\ SentOptions.body # None => name \notin DOMAIN SentOptions.body[1]

\* C8 witness: searchQuery, a property of updateWidget, was sent in the
\* query map beside a body map holding title
C8_Witness ==
    /\ run.sent # None
    /\ run.operation = s_updateWidget
    /\ SentOptions.qs # None
    /\ s_searchQuery \in DOMAIN SentOptions.qs[1]
    /\ SentOptions.body # None
    /\ s_title \in DOMAIN SentOptions.body[1]

\* the endpoint of the operation the last resolveMapping resolved
ResolvedEndpoint ==
    LET operation == OperationAt(resourcesCache, last.resource, last.operation)
    IN  EndpointOf(openApiSchemaCache[1], operation.path, operation.method)

\* the names of the declared path and query parameters, in declaration order
DeclaredUrlNames(endpoint) ==
    IF endpoint.parameters = None
    THEN <<>>
    ELSE LET kept == SelectSeq(endpoint.parameters[1],
                               LAMBDA p : p.in \in {"path", "query"})
         IN  [k \in 1..Len(kept) |-> kept[k].name]

\* the names of the request-body properties, in declaration order
DeclaredBodyNames(endpoint) ==
    IF endpoint.requestBody = None
    THEN <<>>
    ELSE [k \in 1..Len(endpoint.requestBody[1].properties) |->
             endpoint.requestBody[1].properties[k].name]

\* the last call was a resolveMapping that returned properties
Resolved == last.mapping # None /\ last.mapping[1].status = "ok"

PropertiesInOrder ==
    Resolved =>
        [k \in 1..Len(last.mapping[1].properties) |->
            last.mapping[1].properties[k].name]
        = DeclaredUrlNames(ResolvedEndpoint) \o DeclaredBodyNames(ResolvedEndpoint)

\* C9: generateProperties returns the fields of the declared path and query
\* parameters, in declaration order, before the fields of the request-body
\* properties, in declaration order, and a repeated call for the same
\* resource and operation returns the same sequence.
C9_PropertyOrder ==
    [][/\ PropertiesInOrder'
       /\ ( /\ Resolved
            /\ Resolved'
            /\ last'.resource = last.resource
            /\ last'.operation = last.operation )
          => last'.mapping[1].properties = last.mapping[1].properties]_vars

\* C9 witness: updateWidget, which declares a header, a path and a query
\* parameter and two body properties, resolved from the cached table
C9_Witness ==
    /\ Resolved
    /\ last.operation = s_updateWidget
    /\ ~last.mapping[1].rebuilt
    /\ Len(last.mapping[1].properties) = 4
    /\ last.mapping[1].properties[1].name = s_id
    /\ last.mapping[1].properties[4].name = s_count

\* C10: whenever generateProperties or URL assembly ran for (resource,
\* operationId), the operation-record cache holds an entry for the resource
\* with that operationId; and a resolveMapping that finds the entry or the
\* operationId missing re-runs extractOperations for the resource before
\* the lookup.
C10_CacheEnsured ==
    [][/\ ( /\ last'.mapping # None
            /\ (last'.mapping[1].generated # None \/ last'.mapping[1].status = "ok") )
          => /\ last'.mapping[1].generated = Some(TRUE)
             /\ HasOperation(resourcesCache', last'.resource, last'.operation)
       /\ ( /\ last'.mapping # None
            /\ openApiSchemaCache' # None
            /\ \/ last'.resource \notin DOMAIN resourcesCache
               \/ \A k \in 1..Len(resourcesCache[last'.resource]) :
                     resourcesCache[last'.resource][k].value # last'.operation )
          => /\ last'.mapping[1].rebuilt
             /\ last'.resource \in DOMAIN resourcesCache'
             /\ resourcesCache'[last'.resource] =
                    OperationsOf(openApiSchemaCache'[1], last'.resource)]_vars

\* C10 witness: a resolveMapping rebuilt the entry of one resource while the
\* cache held another, and went on to generate the properties
C10_Witness ==
    /\ Resolved
    /\ last.mapping[1].rebuilt
    /\ last.mapping[1].generated = Some(TRUE)
    /\ last.resource = s_widgets
    /\ DOMAIN resourcesCache = {s_widgets, s_tags}

\* the URL as entry k of the run's last item left it
UrlAfter(k) ==
    IF k < Len(run.sent[1].parameters)
    THEN run.sent[1].urlAt[k + 1]
    ELSE SentOptions.url

\* entries j < k of the run's last item carry the same known name, and
\* entry j met the placeholder of that name in the URL
SamePathName(j, k) ==
    /\ j < k
    /\ run.sent[1].parameters[j].name = run.sent[1].parameters[k].name
    /\ \E n \in 1..Len(PropertyNames) :
          PropertyNames[n] = run.sent[1].parameters[j].name
    /\ Includes(run.sent[1].urlAt[j],
                ParameterPlaceholder(run.sent[1].parameters[j].name))

\* C11 as stated: the entries are consumed in order and the URL is mutated
\* in place, so that of two entries with the same path-parameter name the
\* later one overwrites the effect of the earlier one on the URL.
C11_LaterOverwrites ==
    run.sent # None =>
        \A j, k \in 1..Len(run.sent[1].parameters) :
            ( /\ SamePathName(j, k)
              /\ \A n \in (k + 1)..Len(run.sent[1].parameters) :
                    run.sent[1].parameters[n].name # run.sent[1].parameters[k].name )
            => SentOptions.url =
                   Replace(run.sent[1].urlAt[j],
                           ParameterPlaceholder(run.sent[1].parameters[k].name),
                           run.sent[1].parameters[k].value)

\* C11 as amended: the entries are consumed in order and the URL is mutated
\* in place; of two entries with the same path-parameter name the earlier
\* one replaces the placeholder with its value, and the later one, when it
\* no longer finds the placeholder, leaves the URL as it is and goes to the
\* query map or the body map, so the earlier value stays in the URL.
C11_FirstEntryWins ==
    run.sent # None =>
        \A j, k \in 1..Len(run.sent[1].parameters) :
            SamePathName(j, k) =>
                LET name == run.sent[1].parameters[k].name
                    placeholder == ParameterPlaceholder(name)
                IN  /\ UrlAfter(j) = Replace(run.sent[1].urlAt[j], placeholder,
                                             run.sent[1].parameters[j].value)
                    /\ ~Includes(run.sent[1].urlAt[k], placeholder) =>
                          /\ UrlAfter(k) = run.sent[1].urlAt[k]
                          /\ \/ /\ SentOptions.body # None
                                /\ name \in DOMAIN SentOptions.body[1]
                             \/ /\ SentOptions.qs # None
                                /\ name \in DOMAIN SentOptions.qs[1]

\* C11 witness: the first item of getWidget carried id twice; the URL holds
\* the first value and the body map the second
C11_Witness ==
    /\ run.sent # None
    /\ run.operation = s_getWidget
    /\ Len(run.outcomes) = 1
    /\ run.sent[1].parameters = <<Entry(s_id, s_42), Entry(s_id, s_7)>>
    /\ SentOptions.url = ApiOrigin \o AccountPrefix \o s_widgets \o <<"/">> \o s_42
    /\ SentOptions.body = Some([n \in {s_id} |-> s_7])

\* the URL template resolveMapping returned to the current execution
Template == last.mapping[1].request.url

\* the number of entries of the run's last item that carry the name
Occurrences(name) ==
    Cardinality({k \in 1..Len(run.sent[1].parameters) :
                    run.sent[1].parameters[k].name = name})

\* the template with the placeholder of every entry's name replaced by the
\* entry's value, entries from k on
RECURSIVE Substituted(_, _, _)
Substituted(url, parameters, k) ==
    IF k > Len(parameters)
    THEN url
    ELSE Substituted(Replace(url, ParameterPlaceholder(parameters[k].name),
                             parameters[k].value),
                     parameters, k + 1)

\* C12: in an execution with several items, every item's request has each
\* path placeholder of the template replaced by the value the item itself
\* supplied, the item's path-parameter value is in neither the body map nor
\* the query map, and an earlier item does not change the template a later
\* item sees. (Names the item supplies once; names of the property list.)
C12_ItemsIndependent ==
    (run.sent # None /\ Resolved) =>
        LET parameters == run.sent[1].parameters
            known == SelectSeq(parameters,
                               LAMBDA p : PropertyDefined(run.properties, p.name))
        IN  /\ Len(parameters) > 0 => run.sent[1].urlAt[1] = Template
            /\ SentOptions.url = Substituted(Template, known, 1)
            /\ \A k \in 1..Len(known) :
                  ( /\ Includes(Template, ParameterPlaceholder(known[k].name))
                    /\ Occurrences(known[k].name) = 1 )
                  => /\ ~Includes(SentOptions.url, ParameterPlaceholder(known[k].name))
                     /\ SentOptions.body # None =>
                            known[k].name \notin DOMAIN SentOptions.body[1]
                     /\ SentOptions.qs # None =>
                            known[k].name \notin DOMAIN SentOptions.qs[1]

====
